---- MODULE Spec2Model ----
(***************************************************************************)
(* A model of ackee-tracker (src/scripts/main.js): the eligibility         *)
(* predicates, the transport's onload handler, and the record lifecycle    *)
(* (create().record / create().updateRecord) with its 15 s interval and    *)
(* the stop() handle.  Time is abstracted: a tick of an active interval    *)
(* may fire at any moment, a response may arrive at any moment.            *)
(***************************************************************************)
EXTENDS Integers, Sequences, FiniteSets, Bags, TLC

(***************************************************************************)
(* Bounds of the model.                                                    *)
(***************************************************************************)
\* Refresh requests one session may dispatch.
MaxTicks == 3
\* Calls of stop() on one handle.
MaxStops == 2
\* Refresh requests one session may dispatch when the page runs two sessions.
MaxTicksTwo == 1
\* Length of the server strings given to endpoint().
MaxServerLen == 4

(***************************************************************************)
(* Strings that the code inspects character by character are sequences of  *)
(* one-character strings.                                                  *)
(***************************************************************************)
UpperCase == <<"A","B","C","D","E","F","G","H","I","J","K","L","M",
               "N","O","P","Q","R","S","T","U","V","W","X","Y","Z">>
LowerCase == <<"a","b","c","d","e","f","g","h","i","j","k","l","m",
               "n","o","p","q","r","s","t","u","v","w","x","y","z">>

ToLowerChar(c) ==
    IF \E i \in 1..Len(UpperCase) : UpperCase[i] = c
    THEN LowerCase[CHOOSE i \in 1..Len(UpperCase) : UpperCase[i] = c]
    ELSE c

ToLower(str) == [i \in 1..Len(str) |-> ToLowerChar(str[i])]

Contains(str, pat) ==
    \E i \in 1..(Len(str) - Len(pat) + 1) : SubSeq(str, i, i + Len(pat) - 1) = pat

\* All sequences over alphabet of length at most n.
RECURSIVE SeqsUpTo(_, _)
SeqsUpTo(alphabet, n) ==
    IF n = 0 THEN {<<>>}
    ELSE LET shorter == SeqsUpTo(alphabet, n - 1)
         IN  shorter \cup {Append(w, c) : w \in shorter, c \in alphabet}

(***************************************************************************)
(* The environment the script runs in and the inputs of create().          *)
(***************************************************************************)
\* location.hostname
Hostnames == {"localhost", "example.com"}

\* The hostnames given to isLocalhost() when it is exercised on its own.
HostnameInputs ==
    {"", "localhost", "127.0.0.1", "::1", "example.com", "LOCALHOST",
     "localhost.", "127.0.0.2", "0.0.0.0", "[::1]", "::", " "}

\* navigator.userAgent
BrowserAgent == <<"M","o","z","i","l","l","a">>
GoogleAgent  == <<"G","o","o","g","l","e","b","o","t">>
ShoutAgent   == <<"S","P","I","D","E","R">>
UserAgents == {BrowserAgent, GoogleAgent, ShoutAgent}

\* A field of the options object given to create(): a JS value, here true,
\* false, undefined (the field is unset), the number 1 and the number 0.
RawValues == {"true", "false", "undefined"}
RawOpts == [detailed : RawValues \cup {"1"}, ignoreLocalhost : RawValues \cup {"0"}]

\* The server given to create() when sessions are run.
Servers == {<<"s">>}
\* The servers given to endpoint() when it is exercised on its own.
ServerAlphabet == {"s", "/", ":"}
ServerStrings == SeqsUpTo(ServerAlphabet, MaxServerLen)

\* Record ids the server may hand out, besides the fake one.
RecordIds == {"abc123", "def456"}
FakeRecordId == "88888888-8888-8888-8888-888888888888"
\* A parsed body without data.createRecord.payload.
NoData == "no-data"
NoId == "no-id"

StatusOK == 200
StatusError == 500

\* What the server answers: a status and a body.  A body is unparseable, or
\* parses to JSON with or without an errors field and with or without a
\* created id.
Bodies ==
    {[parseable |-> FALSE, errors |-> FALSE, id |-> NoData]}
    \cup [parseable : {TRUE}, errors : BOOLEAN,
          id : RecordIds \cup {FakeRecordId, NoData}]
Responses == [status : {StatusOK, StatusError}, body : Bodies]

Sessions == {1, 2}

VARIABLES
    server,     \* create(): server
    rawOpts,    \* create(): the opts argument as supplied
    opts,       \* create(): opts after validate()
    hostname,   \* location.hostname
    userAgent,  \* navigator.userAgent
    free,       \* session handles the page has not obtained yet
    session,    \* per call of record()/updateRecord(): its closure and history
    result      \* the last application of a pure helper on its own

vars == <<server, rawOpts, opts, hostname, userAgent, free, session, result>>
env == <<server, rawOpts, opts, hostname, userAgent>>

(***************************************************************************)
(* Pure helpers.                                                           *)
(***************************************************************************)
\* Truthiness of a JS value.
Truthy(v) == v \in {"true", "1"}

validateLoosely(o) ==
    [detailed        |-> Truthy(o.detailed),
     ignoreLocalhost |-> (o.ignoreLocalhost \notin {"false", "0"})]

validate(o) ==
    [detailed        |-> (o.detailed = "true"),
     ignoreLocalhost |-> (o.ignoreLocalhost # "false")]

isLocalhostNoEmpty(h) ==
    h = "localhost" \/ h = "127.0.0.1" \/ h = "::1"

isLocalhost(h) ==
    h = "" \/ h = "localhost" \/ h = "127.0.0.1" \/ h = "::1"

BotPatterns == {<<"b","o","t">>, <<"c","r","a","w","l","e","r">>,
                <<"s","p","i","d","e","r">>, <<"c","r","a","w","l","i","n","g">>}

isBot(ua) == \E p \in BotPatterns : Contains(ToLower(ua), p)

isFakeRecordIdNever(id) == FALSE

isFakeRecordId(id) == id = FakeRecordId

\* attributes(detailed): which tier of data the body carries.
attributes(detailed) == IF detailed = TRUE THEN "detailed" ELSE "default"

endpointAlwaysSlash(srv) == srv \o <<"/">> \o <<"a","p","i">>

endpoint(srv) ==
    LET hasTrailingSlash == Len(srv) > 0 /\ srv[Len(srv)] = "/"
    IN  srv \o (IF hasTrailingSlash = TRUE THEN <<>> ELSE <<"/">>) \o <<"a","p","i">>

createRecordBody(attrs) == [op |-> "create", id |-> NoId, attrs |-> attrs]

updateRecordBodyWithoutId(id) == [op |-> "update", id |-> NoId, attrs |-> "none"]

updateRecordBody(id) == [op |-> "update", id |-> id, attrs |-> "none"]

\* A request on the wire: send(url, body, next).
Request(url, body) == [url |-> url, op |-> body.op, id |-> body.id, attrs |-> body.attrs]


(***************************************************************************)
(* The transport: xhr.onload of send().                                    *)
(***************************************************************************)
\* What the server sent, seen from outside the script.
GoodResponse(resp) ==
    resp.status = StatusOK /\ resp.body.parseable /\ ~resp.body.errors

SendOutcomeIgnoringStatus(resp) ==
    IF ~resp.body.parseable THEN "parse"
    ELSE IF resp.body.errors THEN "errors"
    ELSE "next"

SendOutcomeIgnoringErrors(resp) ==
    IF resp.status # StatusOK THEN "status"
    ELSE IF ~resp.body.parseable THEN "parse"
    ELSE "next"

\* "next" when onload hands the parsed body to next, else the error it throws.
SendOutcome(resp) ==
    IF resp.status # StatusOK THEN "status"
    ELSE IF ~resp.body.parseable THEN "parse"
    ELSE IF resp.body.errors THEN "errors"
    ELSE "next"

(***************************************************************************)
(* One tracking session: the closure of one call of record() or            *)
(* updateRecord(), and what it has done so far.                            *)
(***************************************************************************)
NewSession ==
    [kind          |-> "none",    \* the entry point that was called
     isStopped     |-> FALSE,     \* let isStopped
     stopCalls     |-> 0,         \* calls of stop() so far
     stoppedAtTick |-> -1,        \* ticks fired when stop() was first called
     recordId      |-> NoId,      \* the recordId the interval closes over
     interval      |-> "none",    \* const interval: none, active, cleared
     timersCreated |-> 0,         \* calls of setInterval
     ticks         |-> 0,         \* runs of the interval callback
     inflight      |-> EmptyBag,  \* requests sent and not yet answered
     sent          |-> <<>>,      \* every request sent, in order
     created       |-> <<>>,      \* arguments of onCreate, in order
     updated       |-> <<>>,      \* arguments of onUpdate, in order
     nextCalls     |-> 0,         \* times send() called its next
     threw         |-> 0,         \* errors thrown out of onload
     good          |-> 0,         \* good responses received
     bad           |-> 0,         \* other responses received
     issued        |-> NoId,      \* the id in the good response to the create
     lateUpdates   |-> 0,         \* onUpdate calls made after stop()
     failedAtTick  |-> -1,        \* ticks fired when a refresh last failed
     stoppedInFlight |-> FALSE,   \* stop() first came with the create pending
     warned        |-> "none"]    \* the console.warn issued, if any

UpdatesSent(r) == Cardinality({i \in 1..Len(r.sent) : r.sent[i].op = "update"})
CreatesSent(r) == Cardinality({i \in 1..Len(r.sent) : r.sent[i].op = "create"})

\* The create request has been sent and not answered.
CreateInFlight(r) == \E req \in BagToSet(r.inflight) : req.op = "create"

\* send(url, body, next) up to xhr.send: the request is on the wire.
Send(r, req) ==
    [r EXCEPT !.inflight = @ (+) SetToBag({req}),
              !.sent = Append(@, req)]

recordStartsTimer(r, attrs) ==
    [Send(r, Request(endpoint(server), createRecordBody(attrs)))
        EXCEPT !.interval = "active", !.timersCreated = @ + 1]

\* record(server, domainId, attrs, next)
record(r, attrs) == Send(r, Request(endpoint(server), createRecordBody(attrs)))

updateRecordTwice(r, id) ==
    Send(Send(r, Request(endpoint(server), updateRecordBody(id))),
         Request(endpoint(server), updateRecordBody(id)))

\* updateRecord(server, recordId, next)
updateRecord(r, id) == Send(r, Request(endpoint(server), updateRecordBody(id)))

IgnoreReasonNoLocalhost ==
    IF isBot(userAgent) = TRUE THEN "bot"
    ELSE "none"

IgnoreReasonNoBot ==
    IF opts.ignoreLocalhost = TRUE /\ isLocalhost(hostname) = TRUE THEN "localhost"
    ELSE "none"

\* The two guards at the top of _record and of _updateRecord.
IgnoreReason ==
    IF opts.ignoreLocalhost = TRUE /\ isLocalhost(hostname) = TRUE THEN "localhost"
    ELSE IF isBot(userAgent) = TRUE THEN "bot"
    ELSE "none"

\* const interval = setInterval(..., 15000), closing over recordId.
SetInterval(r, id) ==
    [r EXCEPT !.recordId = id, !.interval = "active", !.timersCreated = @ + 1]

RecordCallbackChecksStop(r, id) ==
    IF isFakeRecordId(id) = TRUE
    THEN [r EXCEPT !.warned = "own site"]
    ELSE IF r.isStopped = TRUE
    THEN r
    ELSE SetInterval([r EXCEPT !.created = Append(@, id)], id)

RecordCallbackNoCreate(r, id) ==
    IF isFakeRecordId(id) = TRUE
    THEN [r EXCEPT !.warned = "own site"]
    ELSE SetInterval(r, id)

\* The callback _record gives to record().
RecordCallback(r, id) ==
    IF isFakeRecordId(id) = TRUE
    THEN [r EXCEPT !.warned = "own site"]
    ELSE SetInterval([r EXCEPT !.created = Append(@, id)], id)

\* The callback record() gives to send(): json.data.createRecord.payload.id.
RecordNext(r, body) ==
    IF body.id = NoData
    THEN [r EXCEPT !.threw = @ + 1]
    ELSE RecordCallback(r, body.id)

UpdateNextRestartsTimer(r, id) ==
    SetInterval([r EXCEPT !.updated = Append(@, id),
                          !.lateUpdates = IF r.isStopped THEN @ + 1 ELSE @], id)

UpdateNextChained(r, id) ==
    updateRecord([r EXCEPT !.updated = Append(@, id),
                           !.lateUpdates = IF r.isStopped THEN @ + 1 ELSE @], id)

\* The callbacks updateRecord() and the interval give to send(): next(recordId)
\* hands over the id of the request, and the interval's callback drops it and
\* calls onUpdate with the recordId it closes over.
UpdateNext(r, id) ==
    [r EXCEPT !.updated = Append(@, r.recordId),
              !.lateUpdates = IF r.isStopped THEN @ + 1 ELSE @]

OnloadThrowClears(r, req) ==
    [r EXCEPT !.threw = @ + 1,
              !.interval = IF @ = "active" THEN "cleared" ELSE @,
              !.failedAtTick = IF req.op = "update" THEN r.ticks ELSE @]

\* onload throws: nothing catches the error, next is not called.
OnloadThrow(r, req) ==
    [r EXCEPT !.threw = @ + 1,
              !.failedAtTick = IF req.op = "update" THEN r.ticks ELSE @]

IntervalCallbackNoClear(r) ==
    IF r.isStopped = TRUE
    THEN r
    ELSE updateRecord(r, r.recordId)

IntervalCallbackNoCheck(r) == updateRecord(r, r.recordId)

\* The interval callback.
IntervalCallback(r) ==
    IF r.isStopped = TRUE
    THEN [r EXCEPT !.interval = "cleared"]
    ELSE updateRecord(r, r.recordId)

stopToggles(r) ==
    [r EXCEPT !.isStopped = ~@,
              !.stopCalls = @ + 1,
              !.stoppedAtTick = IF r.isStopped THEN @ ELSE r.ticks,
              !.stoppedInFlight = IF r.isStopped THEN @ ELSE CreateInFlight(r)]

\* const stop = () => { isStopped = true }
stop(r) ==
    [r EXCEPT !.isStopped = TRUE,
              !.stopCalls = @ + 1,
              !.stoppedAtTick = IF r.isStopped THEN @ ELSE r.ticks,
              !.stoppedInFlight = IF r.isStopped THEN @ ELSE CreateInFlight(r)]

StopHandleSharedFlag(ss, s) ==
    [t \in Sessions |->
        IF t = s THEN stop(ss[t]) ELSE [ss[t] EXCEPT !.isStopped = TRUE]]

\* stop() of the handle of session s: isStopped is a variable of that call.
StopHandle(ss, s) == [ss EXCEPT ![s] = stop(@)]

(***************************************************************************)
(* Initial states: create() has run, no session has been started.          *)
(***************************************************************************)
InitSessions ==
    /\ session = [s \in Sessions |-> NewSession]
    /\ result = [fn |-> "none", arg |-> <<>>, val |-> <<>>]

Init ==
    /\ server \in Servers
    /\ rawOpts \in RawOpts
    /\ opts = validate(rawOpts)
    /\ hostname \in Hostnames
    /\ userAgent \in UserAgents
    /\ free = {1}
    /\ InitSessions

(***************************************************************************)
(* Actions.                                                                *)
(***************************************************************************)
\* instance.record(): _record with the default attributes.
Record(s) ==
    /\ s \in free
    /\ \A t \in free : s <= t
    /\ free' = free \ {s}
    /\ LET r == [session[s] EXCEPT !.kind = "record"]
       IN  session' = [session EXCEPT ![s] =
               IF IgnoreReason # "none"
               THEN [r EXCEPT !.warned = IgnoreReason]
               ELSE record(r, attributes(opts.detailed))]
    /\ UNCHANGED <<env, result>>

\* instance.updateRecord(recordId)
UpdateRecord(s, id) ==
    /\ s \in free
    /\ \A t \in free : s <= t
    /\ free' = free \ {s}
    /\ LET r == [session[s] EXCEPT !.kind = "updateRecord", !.recordId = id]
       IN  session' = [session EXCEPT ![s] =
               IF IgnoreReason # "none"
               THEN [r EXCEPT !.warned = IgnoreReason]
               ELSE IF isFakeRecordId(id) = TRUE
               THEN [r EXCEPT !.warned = "own site"]
               ELSE SetInterval(r, id)]
    /\ UNCHANGED <<env, result>>

\* The sessions of this run of the page, started or still to start.
SessionsInPlay == free \cup {s \in Sessions : session[s].kind # "none"}

\* How many updates the model lets one session send.
TickLimit == IF Cardinality(SessionsInPlay) > 1 THEN MaxTicksTwo ELSE MaxTicks

\* handle.stop()
Stop(s) ==
    /\ session[s].kind # "none"
    /\ session[s].stopCalls < MaxStops
    /\ session' = StopHandle(session, s)
    /\ UNCHANGED <<env, free, result>>

\* 15 s have passed on an interval that was not cleared.
Tick(s) ==
    /\ session[s].interval = "active"
    /\ session[s].isStopped \/ UpdatesSent(session[s]) < TickLimit
    /\ session' = [session EXCEPT ![s] =
           IntervalCallback([@ EXCEPT !.ticks = @ + 1])]
    /\ UNCHANGED <<env, free, result>>

\* xhr.onload for a request that is in flight.
Onload(s, req, resp) ==
    /\ BagIn(req, session[s].inflight)
    /\ LET r == [session[s] EXCEPT
                    !.inflight = @ (-) SetToBag({req}),
                    !.good = IF GoodResponse(resp) THEN @ + 1 ELSE @,
                    !.bad = IF GoodResponse(resp) THEN @ ELSE @ + 1,
                    !.issued = IF GoodResponse(resp) /\ req.op = "create"
                               THEN resp.body.id ELSE @]
       IN  session' = [session EXCEPT ![s] =
               IF SendOutcome(resp) # "next"
               THEN OnloadThrow(r, req)
               ELSE LET n == [r EXCEPT !.nextCalls = @ + 1]
                    IN  IF req.op = "create"
                        THEN RecordNext(n, resp.body)
                        ELSE UpdateNext(n, req.id)]
    /\ UNCHANGED <<env, free, result>>

\* The request fails below HTTP: onload never runs and send() set no onerror.
NetworkError(s, req) ==
    /\ BagIn(req, session[s].inflight)
    /\ session' = [session EXCEPT ![s] =
           [@ EXCEPT !.inflight = @ (-) SetToBag({req})]]
    /\ UNCHANGED <<env, free, result>>

Next ==
    \/ \E s \in Sessions : Record(s)
    \/ \E s \in Sessions, id \in RecordIds \cup {FakeRecordId} : UpdateRecord(s, id)
    \/ \E s \in Sessions : Stop(s)
    \/ \E s \in Sessions : Tick(s)
    \/ \E s \in Sessions, resp \in Responses :
           \E req \in BagToSet(session[s].inflight) : Onload(s, req, resp)
    \/ \E s \in Sessions :
           \E req \in BagToSet(session[s].inflight) : NetworkError(s, req)

Spec == Init /\ [][Next]_vars

\* The page of a tracked visit takes two session handles from one instance.
InitTwo ==
    /\ server \in Servers
    /\ rawOpts = [detailed |-> "undefined", ignoreLocalhost |-> "undefined"]
    /\ opts = validate(rawOpts)
    /\ hostname = "example.com"
    /\ userAgent = BrowserAgent
    /\ free = Sessions
    /\ InitSessions

SpecTwo == InitTwo /\ [][Next]_vars

\* setInterval keeps firing an interval that has not been cleared.
SpecFair == Spec /\ \A s \in Sessions : WF_vars(Tick(s))

(***************************************************************************)
(* The pure helpers exercised on their own: the page has any server string *)
(* and any hostname, and one helper is applied to its input once.          *)
(***************************************************************************)
InitPure ==
    /\ server \in ServerStrings
    /\ rawOpts = [detailed |-> "undefined", ignoreLocalhost |-> "undefined"]
    /\ opts = validate(rawOpts)
    /\ hostname \in HostnameInputs
    /\ userAgent = BrowserAgent
    /\ free = {}
    /\ InitSessions

\* const url = endpoint(server)
CallEndpoint ==
    /\ result.fn = "none"
    /\ result' = [fn |-> "endpoint", arg |-> server, val |-> endpoint(server)]
    /\ UNCHANGED <<env, free, session>>

\* isLocalhost(location.hostname)
CallIsLocalhost ==
    /\ result.fn = "none"
    /\ result' = [fn |-> "isLocalhost", arg |-> hostname, val |-> isLocalhost(hostname)]
    /\ UNCHANGED <<env, free, session>>

NextPure == CallEndpoint \/ CallIsLocalhost

SpecPure == InitPure /\ [][NextPure]_vars

(***************************************************************************)
(* Vocabulary of the properties.                                           *)
(***************************************************************************)
\* The visit is one the tracker must ignore.
Ineligible ==
    \/ opts.ignoreLocalhost /\ isLocalhost(hostname)
    \/ isBot(userAgent)

Started(s) == session[s].kind # "none"

\* Requests that failed below HTTP.
Lost(r) == Len(r.sent) - r.good - r.bad - BagCardinality(r.inflight)

UpdatesInFlight(r) ==
    BagCardinality(r.inflight) - CopiesIn(Request(endpoint(server), createRecordBody(attributes(opts.detailed))), r.inflight)

\* Nothing was sent, scheduled, called back or thrown.
Inert(r) ==
    /\ r.sent = <<>>
    /\ r.inflight = EmptyBag
    /\ r.timersCreated = 0
    /\ r.interval = "none"
    /\ r.ticks = 0
    /\ r.created = <<>>
    /\ r.updated = <<>>
    /\ r.threw = 0

(***************************************************************************)
(* C1: on an ignored visit (ignoreLocalhost on a local host, or a bot user *)
(* agent) a session of either entry point never sends a request, never     *)
(* creates a timer, never calls a callback and never throws, however often *)
(* stop() is called on its handle.                                         *)
(***************************************************************************)
C1_IgnoredSessionIsInert ==
    \A s \in Sessions : (Started(s) /\ Ineligible) => Inert(session[s])

C1_Witness ==
    \E s \in Sessions :
        /\ session[s].kind = "record"
        /\ opts.ignoreLocalhost /\ hostname = "localhost"
        /\ session[s].stopCalls = MaxStops
        /\ session[s].warned = "localhost"

(***************************************************************************)
(* C2: when the server answers the create request with the fake record id, *)
(* the session never creates a timer, never sends an update and never      *)
(* calls onCreate or onUpdate.                                             *)
(***************************************************************************)
C2_FakeIdStartsNothing ==
    \A s \in Sessions :
        (session[s].kind = "record" /\ session[s].issued = FakeRecordId) =>
            /\ session[s].timersCreated = 0
            /\ session[s].interval = "none"
            /\ session[s].ticks = 0
            /\ UpdatesSent(session[s]) = 0
            /\ session[s].created = <<>>
            /\ session[s].updated = <<>>

C2_Witness ==
    \E s \in Sessions :
        /\ session[s].kind = "record"
        /\ session[s].issued = FakeRecordId
        /\ session[s].nextCalls = 1
        /\ session[s].warned = "own site"

(***************************************************************************)
(* C3: a session whose stop() was first called before any tick had fired   *)
(* (the create response may or may not have arrived by then) never sends   *)
(* an update request and never calls onUpdate.                             *)
(***************************************************************************)
C3_StopBeforeFirstTick ==
    \A s \in Sessions :
        session[s].stoppedAtTick = 0 =>
            /\ UpdatesSent(session[s]) = 0
            /\ session[s].updated = <<>>

C3_Witness ==
    \E s \in Sessions :
        /\ session[s].kind = "record"
        /\ session[s].stoppedAtTick = 0
        /\ Len(session[s].created) = 1
        /\ session[s].ticks = 1
        /\ session[s].interval = "cleared"

(***************************************************************************)
(* C4: once stop() has been called no step sends an update request; an     *)
(* update sent before stop() may still be answered, and the step that      *)
(* handles the answer sends nothing and creates no timer.                  *)
(***************************************************************************)
C4_NoRefreshAfterStop ==
    [][\A s \in Sessions :
          session[s].isStopped =>
              /\ UpdatesSent(session'[s]) = UpdatesSent(session[s])
              /\ UpdatesInFlight(session'[s]) < UpdatesInFlight(session[s]) =>
                     /\ session'[s].sent = session[s].sent
                     /\ session'[s].timersCreated = session[s].timersCreated]_vars

C4_Witness ==
    \E s \in Sessions :
        /\ session[s].isStopped
        /\ session[s].lateUpdates >= 1
        /\ session[s].interval = "cleared"

(***************************************************************************)
(* C5: in a record() session that got a real id from the server and was    *)
(* not stopped, onCreate was called exactly once, with that id, and no     *)
(* update was sent before that; every tick sent one update for that id,    *)
(* onUpdate was never called more often than ticks fired, and when every   *)
(* update has been answered well onUpdate was called with that id once     *)
(* per tick.                                                               *)
(***************************************************************************)
C5_OneCreateThenOneUpdatePerTick ==
    \A s \in Sessions :
        LET r == session[s]
        IN  /\ (r.kind = "record" /\ UpdatesSent(r) > 0) => Len(r.created) = 1
            /\ (r.kind = "record" /\ r.issued \in RecordIds /\ ~r.isStopped) =>
                   /\ r.created = <<r.issued>>
                   /\ UpdatesSent(r) = r.ticks
                   /\ Len(r.updated) <= r.ticks
                   /\ (r.inflight = EmptyBag /\ r.bad = 0 /\ Lost(r) = 0) =>
                          r.updated = [i \in 1..r.ticks |-> r.issued]

C5_Witness ==
    \E s \in Sessions :
        /\ session[s].kind = "record"
        /\ ~session[s].isStopped
        /\ session[s].issued = "abc123"
        /\ session[s].created = <<"abc123">>
        /\ session[s].ticks = 3
        /\ session[s].updated = <<"abc123", "abc123", "abc123">>

(***************************************************************************)
(* C6: a record() session on a tracked visit has sent exactly one create   *)
(* request, whatever happened since; as long as no good response has come  *)
(* back (the response was bad, the request failed below HTTP, or it is     *)
(* still pending) there is no timer, no onCreate call and no update.       *)
(***************************************************************************)
C6_OneCreateNoRetry ==
    \A s \in Sessions :
        LET r == session[s]
        IN  /\ CreatesSent(r) <= 1
            /\ (r.kind = "record" /\ ~Ineligible) => CreatesSent(r) = 1
            /\ (r.kind = "record" /\ r.good = 0) =>
                   /\ r.timersCreated = 0
                   /\ r.interval = "none"
                   /\ r.created = <<>>
                   /\ UpdatesSent(r) = 0
                   /\ Len(r.sent) <= 1

C6_Witness ==
    \E s \in Sessions :
        /\ session[s].kind = "record"
        /\ Len(session[s].sent) = 1
        /\ session[s].bad = 1
        /\ session[s].threw = 1
        /\ session[s].inflight = EmptyBag
        /\ session[s].timersCreated = 0

(***************************************************************************)
(* C7: an updateRecord(id) session never sends a create request and never  *)
(* calls onCreate; on an ignored visit it is inert; on a tracked visit it  *)
(* is inert when id is the fake id, and otherwise its timer exists from    *)
(* the call on and all it sends are updates for id.                        *)
(***************************************************************************)
C7_UpdateRecordSkipsCreate ==
    \A s \in Sessions :
        LET r == session[s]
        IN  r.kind = "updateRecord" =>
                /\ CreatesSent(r) = 0
                /\ r.created = <<>>
                /\ Ineligible => Inert(r)
                /\ (~Ineligible /\ r.recordId = FakeRecordId) => Inert(r)
                /\ (~Ineligible /\ r.recordId # FakeRecordId) =>
                       /\ r.timersCreated = 1
                       /\ r.interval # "none"
                       /\ \A i \in 1..Len(r.sent) :
                              r.sent[i].op = "update" /\ r.sent[i].id = r.recordId

C7_Witness ==
    \E s \in Sessions :
        /\ session[s].kind = "updateRecord"
        /\ session[s].recordId = "def456"
        /\ session[s].interval = "active"
        /\ UpdatesSent(session[s]) = 2
        /\ session[s].updated = <<"def456">>

(***************************************************************************)
(* C8: while stop() has not been called the timer of a session stays       *)
(* active and every tick that fired sent an update, whether earlier        *)
(* updates failed, were lost or are still pending; a cleared timer is      *)
(* only found in a stopped session.                                        *)
(***************************************************************************)
C8_FailedRefreshKeepsTimer ==
    \A s \in Sessions :
        LET r == session[s]
        IN  /\ (r.timersCreated > 0 /\ ~r.isStopped) =>
                   /\ r.interval = "active"
                   /\ UpdatesSent(r) = r.ticks
            /\ r.interval = "cleared" => r.isStopped

C8_Witness ==
    \E s \in Sessions :
        /\ ~session[s].isStopped
        /\ session[s].failedAtTick = 1
        /\ session[s].ticks = 3
        /\ UpdatesSent(session[s]) = 3
        /\ UpdatesInFlight(session[s]) = 1
        /\ session[s].interval = "active"

(***************************************************************************)
(* C9: send() has called next exactly once per good response (status 200,  *)
(* parseable body, no errors field) and has thrown on every other          *)
(* response, so onCreate and onUpdate together were called at most once    *)
(* per good response.                                                      *)
(***************************************************************************)
C9_NextOnlyOnGoodResponse ==
    \A s \in Sessions :
        LET r == session[s]
        IN  /\ r.nextCalls = r.good
            /\ r.threw = r.bad + (IF r.issued = NoData THEN 1 ELSE 0)
            /\ Len(r.created) + Len(r.updated) <= r.good

C9_Witness ==
    \E s \in Sessions :
        /\ session[s].kind = "record"
        /\ session[s].good = 2
        /\ session[s].bad = 2
        /\ session[s].threw = 2
        /\ session[s].nextCalls = 2
        /\ Len(session[s].updated) = 1

(***************************************************************************)
(* C10: endpoint(server) starts with the server, ends with "/api" and adds *)
(* a slash only when the server does not end with one, so a server without *)
(* a trailing slash and the same server with one slash added give the same *)
(* endpoint; for a server that does not end with two or more slashes this  *)
(* is the server with exactly one trailing slash followed by "api".        *)
(* Slashes the server already ends with are kept, not collapsed.           *)
(***************************************************************************)
Slash == <<"/">>
ApiSegment == <<"a", "p", "i">>

EndsWith(str, suffix) ==
    /\ Len(str) >= Len(suffix)
    /\ SubSeq(str, Len(str) - Len(suffix) + 1, Len(str)) = suffix

RECURSIVE StripTrailingSlashes(_)
StripTrailingSlashes(str) ==
    IF EndsWith(str, Slash)
    THEN StripTrailingSlashes(SubSeq(str, 1, Len(str) - 1))
    ELSE str

C10_EndpointAddsMissingSlash ==
    result.fn = "endpoint" =>
        LET a == result.arg
            v == result.val
        IN  /\ EndsWith(v, Slash \o ApiSegment)
            /\ SubSeq(v, 1, Len(a)) = a
            /\ Len(v) = Len(a) + (IF EndsWith(a, Slash) THEN 3 ELSE 4)
            /\ ~EndsWith(a, Slash) => endpoint(a \o Slash) = v
            /\ ~EndsWith(a, Slash \o Slash) =>
                   v = StripTrailingSlashes(a) \o Slash \o ApiSegment

C10_Witness ==
    /\ result.fn = "endpoint"
    /\ result.arg = <<"s", ":", "s", "/">>
    /\ result.val = <<"s", ":", "s", "/", "a", "p", "i">>

\* C10 as stated: for every server string, the server with exactly one
\* trailing slash, then "api".
C10_AsStated ==
    result.fn = "endpoint" =>
        result.val = StripTrailingSlashes(result.arg) \o Slash \o ApiSegment

(***************************************************************************)
(* C11: isLocalhost(hostname) is true for "", "localhost", "127.0.0.1" and *)
(* "::1" and false for every other hostname.                               *)
(***************************************************************************)
LocalNames == {"", "localhost", "127.0.0.1", "::1"}

C11_LocalhostExactlyFour ==
    result.fn = "isLocalhost" =>
        /\ result.arg \in LocalNames => result.val = TRUE
        /\ result.arg \notin LocalNames => result.val = FALSE

C11_Witness ==
    /\ result.fn = "isLocalhost"
    /\ result.arg = ""
    /\ result.val = TRUE

(***************************************************************************)
(* C12: the validated options have detailed = false unless the supplied    *)
(* value is exactly true and ignoreLocalhost = true unless the supplied    *)
(* value is exactly false (unset fields get false and true); they are held *)
(* apart from the supplied object, which stays as it was supplied, and no  *)
(* call of record, updateRecord or stop, no tick and no response changes   *)
(* either of them.                                                         *)
(***************************************************************************)
C12_ValidatedOptionsFixed ==
    /\ [](/\ opts.detailed = TRUE <=> rawOpts.detailed = "true"
          /\ opts.ignoreLocalhost = FALSE <=> rawOpts.ignoreLocalhost = "false"
          /\ opts.detailed \in BOOLEAN /\ opts.ignoreLocalhost \in BOOLEAN
          /\ rawOpts.detailed = "undefined" => opts.detailed = FALSE
          /\ rawOpts.ignoreLocalhost = "undefined" => opts.ignoreLocalhost = TRUE)
    /\ [][opts' = opts /\ rawOpts' = rawOpts]_vars

C12_Witness ==
    /\ rawOpts = [detailed |-> "1", ignoreLocalhost |-> "0"]
    /\ opts = [detailed |-> FALSE, ignoreLocalhost |-> TRUE]
    /\ hostname = "localhost"
    /\ \E s \in Sessions :
           /\ session[s].kind = "record"
           /\ session[s].warned = "localhost"
           /\ session[s].stopCalls = 1

(***************************************************************************)
(* C13: a tick that fires in a stopped session clears the timer and sends  *)
(* nothing; once the timer is cleared no tick fires, nothing is sent and   *)
(* the timer stays cleared; and, the timer firing fairly, a session whose  *)
(* stop() has been called gets to have no active timer.                    *)
(***************************************************************************)
C13_StoppedTimerIsCleared ==
    /\ [][\A s \in Sessions :
             /\ (session[s].isStopped /\ session'[s].ticks # session[s].ticks) =>
                    /\ session'[s].interval = "cleared"
                    /\ session'[s].sent = session[s].sent
             /\ session[s].interval = "cleared" =>
                    /\ session'[s].ticks = session[s].ticks
                    /\ session'[s].sent = session[s].sent
                    /\ session'[s].interval = "cleared"]_vars
    /\ \A s \in Sessions :
           session[s].isStopped ~> session[s].interval # "active"

C13_Witness ==
    \E s \in Sessions :
        /\ session[s].stoppedAtTick = 2
        /\ session[s].ticks = 3
        /\ UpdatesSent(session[s]) = 2
        /\ session[s].interval = "cleared"
        /\ session[s].inflight # EmptyBag

(***************************************************************************)
(* C14: a session has called setInterval at most once, so it never has     *)
(* more than one timer: after any ticks, answers, failures and stop()      *)
(* calls its one timer is the active or the cleared one.                   *)
(***************************************************************************)
C14_AtMostOneTimer ==
    \A s \in Sessions :
        LET r == session[s]
        IN  /\ r.timersCreated <= 1
            /\ r.interval = "none" <=> r.timersCreated = 0

C14_Witness ==
    \E s \in Sessions :
        /\ session[s].timersCreated = 1
        /\ session[s].interval = "cleared"
        /\ session[s].bad >= 1
        /\ Len(session[s].updated) >= 1
        /\ session[s].stopCalls = MaxStops

(***************************************************************************)
(* C15: in a record() session no timer exists, no tick has fired and no    *)
(* update has been sent while the create request is pending or when the    *)
(* visit was ignored; a timer exists only once the create request has been *)
(* answered well with a real id.                                           *)
(***************************************************************************)
C15_CreateBeforeTimer ==
    \A s \in Sessions :
        LET r == session[s]
        IN  r.kind = "record" =>
                /\ (CreateInFlight(r) \/ r.warned \in {"localhost", "bot"}) =>
                       /\ r.timersCreated = 0
                       /\ r.interval = "none"
                       /\ r.ticks = 0
                       /\ UpdatesSent(r) = 0
                /\ r.timersCreated > 0 =>
                       /\ r.issued \in RecordIds
                       /\ r.good >= 1
                       /\ r.sent[1].op = "create"

C15_Witness ==
    \E s \in Sessions :
        /\ session[s].kind = "record"
        /\ CreateInFlight(session[s])
        /\ session[s].stopCalls = 1
        /\ session[s].interval = "none"

(***************************************************************************)
(* C16: requests of a session are not serialized.  While the create        *)
(* request is pending it is the only request in flight, and each tick      *)
(* sends one update whether or not earlier ones were answered, so at most  *)
(* as many updates are in flight as ticks have fired.                      *)
(***************************************************************************)
C16_OneRequestPerTickInFlight ==
    \A s \in Sessions :
        LET r == session[s]
        IN  /\ CreateInFlight(r) => BagCardinality(r.inflight) = 1
            /\ UpdatesInFlight(r) <= r.ticks
            /\ BagCardinality(r.inflight) <= Len(r.sent)

C16_Witness ==
    \E s \in Sessions :
        /\ ~session[s].isStopped
        /\ session[s].ticks = 3
        /\ UpdatesInFlight(session[s]) = 3

\* C16 as stated: at most one request of a session is in flight.
C16_AsStated ==
    \A s \in Sessions : BagCardinality(session[s].inflight) <= 1

(***************************************************************************)
(* C17: with two sessions of one instance, a stop() on one handle changes  *)
(* nothing of the other session; a session's flag is only ever set by its  *)
(* own stop(); and a session that was not stopped keeps its timer active   *)
(* and sends, on every tick, one update with its own record id.            *)
(***************************************************************************)
C17_SessionsAreSeparate ==
    /\ [][\A s \in Sessions :
             session'[s].stopCalls # session[s].stopCalls =>
                 \A t \in Sessions \ {s} : session'[t] = session[t]]_vars
    /\ [](\A t \in Sessions :
             LET r == session[t]
             IN  /\ r.isStopped => r.stopCalls >= 1
                 /\ (r.timersCreated > 0 /\ ~r.isStopped) =>
                        /\ r.interval = "active"
                        /\ UpdatesSent(r) = r.ticks
                 /\ \A i \in 1..Len(r.sent) :
                        r.sent[i].op = "update" => r.sent[i].id = r.recordId)

C17_Witness ==
    /\ session[1].kind = "record"
    /\ session[1].recordId = "abc123"
    /\ session[1].isStopped
    /\ session[1].interval = "cleared"
    /\ session[2].kind = "updateRecord"
    /\ session[2].recordId = "def456"
    /\ ~session[2].isStopped
    /\ session[2].interval = "active"
    /\ session[2].ticks = 1
    /\ session[2].updated = <<"def456">>
    /\ session[1].updated = <<>>

(***************************************************************************)
(* C18: a call of stop() leaves the flag set; no step of any kind unsets   *)
(* it, and no update is sent while it is set; a call of stop() on a        *)
(* session that is already stopped changes nothing of the session but the  *)
(* count of calls.                                                         *)
(***************************************************************************)
C18_StopIdempotentFlagMonotone ==
    [][\A s \in Sessions :
          /\ session[s].isStopped => session'[s].isStopped
          /\ session[s].isStopped => UpdatesSent(session'[s]) = UpdatesSent(session[s])
          /\ session'[s].stopCalls # session[s].stopCalls => session'[s].isStopped
          /\ (session[s].isStopped /\ session'[s].stopCalls # session[s].stopCalls) =>
                 session'[s] = [session[s] EXCEPT !.stopCalls = @ + 1]]_vars

C18_Witness ==
    \E s \in Sessions :
        /\ session[s].stopCalls = 2
        /\ session[s].isStopped
        /\ session[s].stoppedAtTick = 1
        /\ session[s].interval = "cleared"
        /\ session[s].ticks = 2

(***************************************************************************)
(* C19: every update request of a session carries, and every onUpdate call *)
(* receives, the session's one record id: in a record() session the id the *)
(* server gave in answer to the create request, which is also what         *)
(* onCreate received, in an updateRecord() session the id passed in; once  *)
(* bound the id never changes, in whatever order answers arrive.           *)
(***************************************************************************)
C19_OneIdentifierPerSession ==
    /\ [](\A s \in Sessions :
             LET r == session[s]
             IN  /\ \A i \in 1..Len(r.sent) :
                        r.sent[i].op = "update" => r.sent[i].id = r.recordId
                 /\ \A i \in 1..Len(r.updated) : r.updated[i] = r.recordId
                 /\ (r.kind = "record" /\ r.timersCreated > 0) =>
                        /\ r.recordId = r.issued
                        /\ r.recordId \in RecordIds
                        /\ r.created = <<r.issued>>
                 /\ (r.kind = "record" /\ r.timersCreated = 0) =>
                        r.recordId = NoId /\ r.updated = <<>>)
    /\ [][\A s \in Sessions :
             session[s].recordId # NoId =>
                 session'[s].recordId = session[s].recordId]_vars

C19_Witness ==
    \E s \in Sessions :
        /\ session[s].kind = "record"
        /\ session[s].issued = "def456"
        /\ session[s].created = <<"def456">>
        /\ UpdatesSent(session[s]) = 3
        /\ session[s].updated = <<"def456", "def456">>
        /\ session[s].bad = 1

(***************************************************************************)
(* C20: when stop() was called while the create request was pending and    *)
(* the request is then answered well with a real id, onCreate is still     *)
(* called once with that id and the timer is still created; the timer is   *)
(* active until its first tick, which clears it, and no update is ever     *)
(* sent.                                                                   *)
(***************************************************************************)
C20_CreateIgnoresStop ==
    \A s \in Sessions :
        LET r == session[s]
        IN  (r.stoppedInFlight /\ r.issued \in RecordIds) =>
                /\ r.created = <<r.issued>>
                /\ r.timersCreated = 1
                /\ UpdatesSent(r) = 0
                /\ r.updated = <<>>
                /\ r.ticks = 0 => r.interval = "active"
                /\ r.ticks > 0 => (r.ticks = 1 /\ r.interval = "cleared")

C20_Witness ==
    \E s \in Sessions :
        /\ session[s].stoppedInFlight
        /\ session[s].created = <<"abc123">>
        /\ session[s].ticks = 1
        /\ session[s].interval = "cleared"
        /\ Len(session[s].sent) = 1

====
